---- MODULE Spec2Model ----
(***************************************************************************)
(* Prescribed-burn analysis service: the Flask handler of app.py and the   *)
(* PrescribedBurnAgent of services/burn_agent.py.                          *)
(*                                                                         *)
(* One request is followed from its arrival to its response.  The handler  *)
(* is sequential; its position (pc) advances at every outbound call:       *)
(*   idle -> geocode -> weather -> topography -> fuel -> water -> compile  *)
(*        -> done.                                                         *)
(* Upstream services are the environment: every step draws the reply of    *)
(* its service from a set of replies.                                      *)
(*                                                                         *)
(* Python values.  A text the code inspects character by character (a      *)
(* period name, a wind string) is a sequence of one-character strings;     *)
(* any other text is a TLA+ string.  A JSON value whose type the code      *)
(* tests (the relativeHumidity field, the reported humidity) is a tagged   *)
(* record: [t |-> "none"], [t |-> "num", v |-> n], [t |-> "str", s |-> x], *)
(* [t |-> "dict"] (the empty dict) or [t |-> "dict", value |-> x].         *)
(* A raised exception e is the record [raise |-> str(e)].                  *)
(* Elevations are fixed-point numbers in hundredths of a metre.            *)
(***************************************************************************)
EXTENDS Integers, Sequences, FiniteSets, TLC

VARIABLES pc, city, calls, geoResp, location,
          weatherResp, weather_data,
          elevResp, topography_data,
          fuelResp, fuel_data,
          waterResp, water_sources,
          response

vars == <<pc, city, calls, geoResp, location, weatherResp, weather_data, elevResp,
          topography_data, fuelResp, fuel_data, waterResp, water_sources,
          response>>

-----------------------------------------------------------------------------
(* Python values *)

PyNone == [t |-> "none"]
PyNum(n) == [t |-> "num", v |-> n]
PyStr(x) == [t |-> "str", s |-> x]
PyEmptyDict == [t |-> "dict"]
PyValueDict(x) == [t |-> "dict", value |-> x]

\* bool(x)
Truthy(x) ==
    CASE x.t = "none" -> FALSE
      [] x.t = "num"  -> x.v # 0
      [] x.t = "str"  -> x.s # ""
      [] x.t = "dict" -> DOMAIN x # {"t"}

\* isinstance(x, dict)
IsDict(x) == x.t = "dict"

\* x.get('value')
DictGetValue(x) == IF "value" \in DOMAIN x THEN x.value ELSE PyNone

\* isinstance(x, (int, float))
IsNumber(x) == x.t = "num"

Raise(msg) == [raise |-> msg]
IsRaise(x) == "raise" \in DOMAIN x

\* A variable not yet assigned
Unset == [unset |-> TRUE]

Take(s, n) == SubSeq(s, 1, IF Len(s) < n THEN Len(s) ELSE n)

-----------------------------------------------------------------------------
(* Texts as character sequences: str.lower, `in`, str.split, str.isdigit, int *)

UpperCase == <<"A","B","C","D","E","F","G","H","I","J","K","L","M",
               "N","O","P","Q","R","S","T","U","V","W","X","Y","Z">>
LowerCase == <<"a","b","c","d","e","f","g","h","i","j","k","l","m",
               "n","o","p","q","r","s","t","u","v","w","x","y","z">>

LowerChar(c) ==
    IF \E i \in DOMAIN UpperCase : UpperCase[i] = c
    THEN LowerCase[CHOOSE i \in DOMAIN UpperCase : UpperCase[i] = c]
    ELSE c

Lower(s) == [i \in DOMAIN s |-> LowerChar(s[i])]

\* sub in s
Contains(s, sub) ==
    \E i \in 1..(Len(s) - Len(sub) + 1) : SubSeq(s, i, i + Len(sub) - 1) = sub

Night == <<"n","i","g","h","t">>

IsSpace(c) == c \in {" ", "\t"}

RECURSIVE SplitFrom(_, _, _, _)
SplitFrom(s, i, cur, acc) ==
    IF i > Len(s)
    THEN IF cur = <<>> THEN acc ELSE Append(acc, cur)
    ELSE IF IsSpace(s[i])
         THEN SplitFrom(s, i + 1, <<>>, IF cur = <<>> THEN acc ELSE Append(acc, cur))
         ELSE SplitFrom(s, i + 1, Append(cur, s[i]), acc)

\* s.split()
Split(s) == SplitFrom(s, 1, <<>>, <<>>)

Digits == <<"0","1","2","3","4","5","6","7","8","9">>
IsDigit(c) == \E i \in DOMAIN Digits : Digits[i] = c
DigitValue(c) == (CHOOSE i \in DOMAIN Digits : Digits[i] = c) - 1

\* ''.join(filter(str.isdigit, tok))
FilterDigits(tok) == SelectSeq(tok, IsDigit)

RECURSIVE DecimalValue(_)
DecimalValue(ds) ==
    IF ds = <<>> THEN 0
    ELSE 10 * DecimalValue(SubSeq(ds, 1, Len(ds) - 1)) + DigitValue(ds[Len(ds)])

\* int(ds) for a text of digits
ParseInt(ds) ==
    IF ds = <<>>
    THEN Raise("invalid literal for int() with base 10: ''")
    ELSE [value |-> DecimalValue(ds)]

-----------------------------------------------------------------------------
(* Weather normalizer: _get_weather_data *)

\* forecast_data['properties']['periods'][:3]
KeepPeriods == 3
\* start_idx = i * 4; hourly_periods[start_idx:start_idx + 4]
HourlyWindow == 4

\* The keys of a forecast period the code subscripts, in the order it reads them
RequiredKeys == <<"name", "temperature", "temperatureUnit", "windSpeed",
                  "windDirection", "shortForecast", "detailedForecast">>

\* The KeyError of the first subscript that fails on period p, if any
MissingKey(p) ==
    LET missing == {k \in DOMAIN RequiredKeys : RequiredKeys[k] \notin DOMAIN p}
    IN  IF missing = {} THEN ""
        ELSE RequiredKeys[CHOOSE k \in missing : \A j \in missing : k <= j]

\* Lines 80-97 with the first period's name tested as it is sent, not lowered
NormalizedNameCaseSensitive(i, original_name, normalized_periods) ==
    IF i = 0
    THEN IF Contains(original_name, Night) THEN "Tonight" ELSE "Today"
    ELSE IF i = 1
         THEN IF normalized_periods[1].name = "Today" THEN "Tonight" ELSE "Tomorrow"
         ELSE IF normalized_periods[2].name = "Tonight"
              THEN "Tomorrow" ELSE "Tomorrow Night"

\* Lines 80-97: the name of period i (0-based), given the periods normalized so far
NormalizedName(i, original_name, normalized_periods) ==
    IF i = 0
    THEN IF Contains(Lower(original_name), Night) THEN "Tonight" ELSE "Today"
    ELSE IF i = 1
         THEN IF normalized_periods[1].name = "Today" THEN "Tonight" ELSE "Tomorrow"
         ELSE IF normalized_periods[2].name = "Tonight"
              THEN "Tomorrow" ELSE "Tomorrow Night"

\* Lines 100-105: the humidity the period itself carries, else None
PeriodHumidity(p) ==
    IF "relativeHumidity" \in DOMAIN p /\ Truthy(p.relativeHumidity)
    THEN IF IsDict(p.relativeHumidity)
         THEN DictGetValue(p.relativeHumidity)
         ELSE p.relativeHumidity
    ELSE PyNone

\* hourly.get('relativeHumidity')
HourlyGet(hourly) ==
    IF "relativeHumidity" \in DOMAIN hourly THEN hourly.relativeHumidity ELSE PyNone

\* Lines 111-119: the loop over a slice of the hourly periods, from entry k on
RECURSIVE ScanHourly(_, _, _)
ScanHourly(slice, k, humidity) ==
    IF k > Len(slice) THEN humidity
    ELSE IF Truthy(HourlyGet(slice[k]))
         THEN LET humidity_data == HourlyGet(slice[k])
                  h == IF IsDict(humidity_data)
                       THEN DictGetValue(humidity_data)
                       ELSE humidity_data
              IN  IF h # PyNone THEN h ELSE ScanHourly(slice, k + 1, h)
         ELSE ScanHourly(slice, k + 1, humidity)

\* hourly_periods[start_idx:start_idx + 4]
HourlySlice(hourly_periods, i) ==
    LET start_idx == i * HourlyWindow
        last == IF Len(hourly_periods) < start_idx + HourlyWindow
                THEN Len(hourly_periods) ELSE start_idx + HourlyWindow
    IN  SubSeq(hourly_periods, start_idx + 1, last)

\* Lines 99-119 and 128: the humidity reported for period i (0-based)
ResolveHumidity(p, i, hourly_periods) ==
    LET own == PeriodHumidity(p)
        humidity == IF own = PyNone /\ hourly_periods # <<>>
                    THEN ScanHourly(HourlySlice(hourly_periods, i), 1, own)
                    ELSE own
    IN  IF humidity # PyNone THEN humidity ELSE PyStr("N/A")

\* Lines 76-131: the loop over the kept periods, from period i (0-based) on
RECURSIVE NormalizeFrom(_, _, _, _)
NormalizeFrom(periods, hourly_periods, i, normalized_periods) ==
    IF i >= Len(periods) THEN [forecast |-> normalized_periods]
    ELSE LET p == periods[i + 1] IN
         IF MissingKey(p) # "" THEN Raise("'" \o MissingKey(p) \o "'")
         ELSE NormalizeFrom(periods, hourly_periods, i + 1,
                Append(normalized_periods,
                  [name |-> NormalizedName(i, p.name, normalized_periods),
                   original_name |-> p.name,
                   temperature |-> p.temperature,
                   temperature_unit |-> p.temperatureUnit,
                   wind_speed |-> p.windSpeed,
                   wind_direction |-> p.windDirection,
                   humidity |-> ResolveHumidity(p, i, hourly_periods),
                   short_forecast |-> p.shortForecast,
                   detailed_forecast |-> p.detailedForecast]))

\* Line 71
KeptPeriods(periods) == Take(periods, KeepPeriods)

\* Lines 50-136: the body of the try block.  A reply r of the forecast service is
\* [fail, err, periods, hourly]: fail = 1, 2, 3 when the grid-point, forecast or
\* hourly request raises (str(e) = err), 0 when all three answer.
WeatherBody(r) ==
    IF r.fail # 0 THEN Raise(r.err)
    ELSE LET n == NormalizeFrom(KeptPeriods(r.periods), r.hourly, 0, <<>>)
         IN  IF IsRaise(n) THEN n
             ELSE [source |-> "National Weather Service (NOAA)",
                   forecast |-> n.forecast]

\* An error-variant: {'error': f"<prefix>{str(e)}"}
ErrorVariant(prefix, e) == [error |-> <<prefix, e.raise>>]

\* _get_weather_data, with its except clause
GetWeatherData(r) ==
    LET b == WeatherBody(r)
    IN  IF IsRaise(b) THEN ErrorVariant("Weather data unavailable: ", b) ELSE b

\* The outbound requests _get_weather_data makes on reply r
WeatherCalls(r) == IF r.fail = 0 THEN 3 ELSE r.fail

-----------------------------------------------------------------------------
(* Burn assessor: _assess_burn_conditions *)

WindLimit == 15
HumidityLimit == 30
TemperatureLimit == 85

\* wind.split()[0]
FirstToken(wind) ==
    IF Split(wind) = <<>> THEN Raise("list index out of range")
    ELSE [value |-> Split(wind)[1]]

\* Line 290 with the digits of the whole wind text, not of its first token
WindValueAllDigits(wind) ==
    LET tok == FirstToken(wind)
    IN  IF IsRaise(tok) THEN tok ELSE ParseInt(FilterDigits(wind))

\* Line 290
WindValue(wind) ==
    LET tok == FirstToken(wind)
    IN  IF IsRaise(tok) THEN tok ELSE ParseInt(FilterDigits(tok.value))

\* Lines 292-297
Concerns(wind_value, humidity, temp) ==
    (IF wind_value > WindLimit
     THEN <<"High wind speeds - increased fire spread risk">> ELSE <<>>)
    \o (IF IsNumber(humidity) /\ humidity.v < HumidityLimit
        THEN <<"Low humidity - increased fire intensity risk">> ELSE <<>>)
    \o (IF temp > TemperatureLimit
        THEN <<"High temperature - increased fire behavior risk">> ELSE <<>>)

\* Lines 282-302: the body of the try block
AssessBody(weather) ==
    IF weather.forecast = <<>> THEN Raise("list index out of range")
    ELSE LET current == weather.forecast[1]
             temp == current.temperature
             humidity == IF "humidity" \in DOMAIN current
                         THEN current.humidity ELSE PyStr("N/A")
             wind_value == WindValue(current.wind_speed)
         IN  IF IsRaise(wind_value) THEN wind_value
             ELSE LET concerns == Concerns(wind_value.value, humidity, temp)
                  IN  [concerns |-> IF concerns # <<>> THEN concerns
                                    ELSE <<"Conditions appear moderate">>,
                       recommendation |->
                         "Consult with fire management professionals before proceeding"]

\* _assess_burn_conditions without its except clause
AssessBurnConditionsUncaught(weather) ==
    IF "error" \in DOMAIN weather
    THEN [assessment |-> <<"Unable to assess - weather data unavailable">>]
    ELSE AssessBody(weather)

\* _assess_burn_conditions
AssessBurnConditions(weather) ==
    IF "error" \in DOMAIN weather
    THEN [assessment |-> <<"Unable to assess - weather data unavailable">>]
    ELSE LET b == AssessBody(weather)
         IN  IF IsRaise(b)
             THEN [assessment |-> <<"Unable to assess conditions: ", b.raise>>]
             ELSE b

-----------------------------------------------------------------------------
(* Terrain sampler: _get_topography_data, _classify_terrain *)

\* m metres in the model's unit, the hundredth of a metre
Metres(m) == m * 100

FlatLimit == 10
RollingLimit == 50
HillyLimit == 100

\* _classify_terrain with inclusive upper bounds
ClassifyTerrainInclusive(elevation_range) ==
    IF elevation_range <= Metres(FlatLimit) THEN "Flat terrain"
    ELSE IF elevation_range <= Metres(RollingLimit) THEN "Gently rolling terrain"
    ELSE IF elevation_range <= Metres(HillyLimit) THEN "Moderately hilly terrain"
    ELSE "Steep/mountainous terrain"

\* _classify_terrain
ClassifyTerrain(elevation_range) ==
    IF elevation_range < Metres(FlatLimit) THEN "Flat terrain"
    ELSE IF elevation_range < Metres(RollingLimit) THEN "Gently rolling terrain"
    ELSE IF elevation_range < Metres(HillyLimit) THEN "Moderately hilly terrain"
    ELSE "Steep/mountainous terrain"

\* The integers nearest to n / d.  round(x, 1) of a binary float that stands for a
\* decimal tie goes either way, so a tie yields both neighbours.
RoundChoices(n, d) ==
    LET q == n \div d
        r == n % d
    IN  IF 2 * r < d THEN {q} ELSE IF 2 * r > d THEN {q + 1} ELSE {q, q + 1}

SetMax(S) == CHOOSE x \in S : \A y \in S : y <= x
SetMin(S) == CHOOSE x \in S : \A y \in S : x <= y
Range(s) == {s[i] : i \in DOMAIN s}

\* Lines 164-165: max(elevations) - min(elevations)
ElevationRange(results) ==
    IF results = <<>> THEN Raise("max() arg is an empty sequence")
    ELSE [value |-> SetMax(Range(results)) - SetMin(Range(results))]

\* Lines 143-173: the outcomes of the try block.  A reply r of the elevation service
\* is [fail, err, elevation, results]: fail = 1 or 2 when the first or the second
\* request raises, 0 when both answer; results are the neighbours' elevations.
\* elevation_feet and elevation_range_nearby are in tenths; elevation * 3.28084 in
\* tenths of a foot is elevation * 328084 / 1000000 = elevation * 82021 / 250000.
TopographyBody(r) ==
    IF r.fail # 0 THEN {Raise(r.err)}
    ELSE LET elevation_range == ElevationRange(r.results) IN
         IF IsRaise(elevation_range) THEN {elevation_range}
         ELSE {[source |-> "Open-Elevation API (SRTM 2000)",
                elevation_meters |-> r.elevation,
                elevation_feet |-> ft,
                elevation_range_nearby |-> rg,
                terrain_note |-> ClassifyTerrain(elevation_range.value)] :
                  ft \in RoundChoices(r.elevation * 82021, 250000),
                  rg \in RoundChoices(elevation_range.value, 10)}

\* _get_topography_data, with its except clause: the sections it may return
GetTopographyData(r) ==
    {IF IsRaise(b) THEN ErrorVariant("Topography data unavailable: ", b) ELSE b :
        b \in TopographyBody(r)}

\* The outbound requests _get_topography_data makes on reply r
TopographyCalls(r) == IF r.fail = 1 THEN 1 ELSE 2

-----------------------------------------------------------------------------
(* Vegetation and water aggregators: _get_fuel_sources, _get_water_sources *)

NoTags == [k \in {} |-> ""]

\* element.get('tags', {})
ElementTags(element) == IF "tags" \in DOMAIN element THEN element.tags ELSE NoTags

\* tags.get(k)
TagGet(tags, k) == IF k \in DOMAIN tags THEN PyStr(tags[k]) ELSE PyNone

\* a or b
Or(a, b) == IF Truthy(a) THEN a ELSE b

\* data.get('elements', [])
Elements(r) == IF "elements" \in DOMAIN r THEN r.elements ELSE <<>>

\* A dict from tags to counts is the sequence of its items [key, count] in insertion
\* order, the order Python iterates a dict in.
DictHas(d, k) == \E i \in DOMAIN d : d[i].key = k
DictCount(d, k) == IF DictHas(d, k) THEN d[CHOOSE i \in DOMAIN d : d[i].key = k].count ELSE 0

\* d[k] = d.get(k, 0) + 1
Increment(d, k) ==
    IF DictHas(d, k)
    THEN [i \in DOMAIN d |-> IF d[i].key = k THEN [key |-> k, count |-> d[i].count + 1]
                                              ELSE d[i]]
    ELSE Append(d, [key |-> k, count |-> 1])

\* Lines 215-220: the loop over the elements, from element i on
RECURSIVE FuelTally(_, _, _)
FuelTally(elements, i, fuel_types) ==
    IF i > Len(elements) THEN [value |-> fuel_types]
    ELSE LET element == elements[i] IN
         IF "type" \notin DOMAIN element THEN Raise("'type'")
         ELSE IF element.type = "way"
              THEN LET tags == ElementTags(element)
                       fuel_type == Or(TagGet(tags, "natural"), TagGet(tags, "landuse"))
                   IN  FuelTally(elements, i + 1,
                                 IF Truthy(fuel_type) THEN Increment(fuel_types, fuel_type.s)
                                                      ELSE fuel_types)
              ELSE FuelTally(elements, i + 1, fuel_types)

\* The scan of max with a later item replacing the best so far on an equal count
RECURSIVE MaxItemLast(_, _, _)
MaxItemLast(items, i, best) ==
    IF i > Len(items) THEN best
    ELSE MaxItemLast(items, i + 1, IF items[i].count >= best.count THEN items[i] ELSE best)

\* max(items, key=lambda x: x[1]) scanning from item i: a later item replaces the
\* best so far only when its count is strictly greater
RECURSIVE MaxItemFrom(_, _, _)
MaxItemFrom(items, i, best) ==
    IF i > Len(items) THEN best
    ELSE MaxItemFrom(items, i + 1, IF items[i].count > best.count THEN items[i] ELSE best)

\* Line 226
DominantFuel(fuel_types) ==
    IF fuel_types # <<>> THEN MaxItemFrom(fuel_types, 2, fuel_types[1]).key ELSE "Unknown"

\* Line 225
TotalAreas(elements) == Cardinality({i \in DOMAIN elements : elements[i].type = "way"})

\* Lines 191-227: the body of the try block.  A reply r of the feature service is
\* [fail, err] with, when it carries the key, elements; fail = 1 when the request raises.
FuelBody(r) ==
    IF r.fail # 0 THEN Raise(r.err)
    ELSE LET fuel_types == FuelTally(Elements(r), 1, <<>>) IN
         IF IsRaise(fuel_types) THEN fuel_types
         ELSE [source |-> "OpenStreetMap via Overpass API",
               fuel_types_found |-> fuel_types.value,
               total_areas |-> TotalAreas(Elements(r)),
               dominant_fuel |-> DominantFuel(fuel_types.value)]

\* _get_fuel_sources without its except clause
GetFuelSourcesUncaught(r) == FuelBody(r)

\* _get_fuel_sources, with its except clause
GetFuelSources(r) ==
    LET b == FuelBody(r)
    IN  IF IsRaise(b) THEN ErrorVariant("Fuel source data unavailable: ", b) ELSE b

\* Lines 257-265 without the else: a hydrant is tallied by its other tags too
RECURSIVE WaterTallyNoElse(_, _, _, _)
WaterTallyNoElse(elements, i, water_types, hydrants) ==
    IF i > Len(elements) THEN [water_types |-> water_types, hydrants |-> hydrants]
    ELSE LET tags == ElementTags(elements[i])
             water_type == Or(Or(TagGet(tags, "natural"), TagGet(tags, "waterway")),
                              TagGet(tags, "landuse"))
         IN  WaterTallyNoElse(elements, i + 1,
                              IF Truthy(water_type) THEN Increment(water_types, water_type.s)
                                                    ELSE water_types,
                              IF TagGet(tags, "emergency") = PyStr("fire_hydrant")
                              THEN hydrants + 1 ELSE hydrants)

\* Lines 257-265: the loop over the elements, from element i on
RECURSIVE WaterTally(_, _, _, _)
WaterTally(elements, i, water_types, hydrants) ==
    IF i > Len(elements) THEN [water_types |-> water_types, hydrants |-> hydrants]
    ELSE LET tags == ElementTags(elements[i]) IN
         IF TagGet(tags, "emergency") = PyStr("fire_hydrant")
         THEN WaterTally(elements, i + 1, water_types, hydrants + 1)
         ELSE LET water_type == Or(Or(TagGet(tags, "natural"), TagGet(tags, "waterway")),
                                   TagGet(tags, "landuse"))
              IN  WaterTally(elements, i + 1,
                             IF Truthy(water_type) THEN Increment(water_types, water_type.s)
                                                   ELSE water_types,
                             hydrants)

\* Lines 234-272: the body of the try block
WaterBody(r) ==
    IF r.fail # 0 THEN Raise(r.err)
    ELSE LET t == WaterTally(Elements(r), 1, <<>>, 0) IN
         [source |-> "OpenStreetMap via Overpass API",
          water_bodies |-> t.water_types,
          fire_hydrants |-> t.hydrants,
          total_water_sources |-> Len(Elements(r))]

\* _get_water_sources, with its except clause
GetWaterSources(r) ==
    LET b == WaterBody(r)
    IN  IF IsRaise(b) THEN ErrorVariant("Water source data unavailable: ", b) ELSE b

-----------------------------------------------------------------------------
(* The request handler (app.py) and the orchestrator (analyze_location) *)

NoCalls == [geocoder |-> 0, weather |-> 0, elevation |-> 0, overpass |-> 0]

Init ==
    /\ pc = "idle"
    /\ city = Unset
    /\ calls = NoCalls
    /\ geoResp = Unset
    /\ location = Unset
    /\ weatherResp = Unset /\ weather_data = Unset
    /\ elevResp = Unset /\ topography_data = Unset
    /\ fuelResp = Unset /\ fuel_data = Unset
    /\ waterResp = Unset /\ water_sources = Unset
    /\ response = Unset

\* data.get('city', '')
GetCity(data) == IF "city" \in DOMAIN data THEN data.city ELSE ""

\* app.py line 23: return jsonify({'error': str(e)}), 500
ServerError(e) == [status |-> 500, body |-> [error |-> e.raise]]

\* _geocode_city without its check of the geocoder's answer: no match becomes a
\* location at the origin
GeocodeCityUnchecked(name, g) ==
    IF IsRaise(g) THEN g
    ELSE [source |-> "Nominatim (OpenStreetMap)",
          name |-> IF g.found THEN g.address ELSE "",
          latitude |-> IF g.found THEN g.latitude ELSE 0,
          longitude |-> IF g.found THEN g.longitude ELSE 0]

\* _geocode_city on the geocoder's answer g: a raised error, no match, or a match
GeocodeCity(name, g) ==
    IF IsRaise(g) THEN g
    ELSE IF ~g.found THEN Raise("Could not find location: " \o name)
    ELSE [source |-> "Nominatim (OpenStreetMap)",
          name |-> g.address,
          latitude |-> g.latitude,
          longitude |-> g.longitude]

\* The handler without its check of the place name
ReceiveUnchecked(Bodies) ==
    /\ pc = "idle"
    /\ \E data \in Bodies :
         /\ city' = GetCity(data)
         /\ response' = response
         /\ pc' = "geocode"
    /\ UNCHANGED <<calls, geoResp, location, weatherResp, weather_data, elevResp,
                   topography_data, fuelResp, fuel_data, waterResp, water_sources>>

\* app.py lines 13-17: the request arrives; an empty place name is rejected
Receive(Bodies) ==
    /\ pc = "idle"
    /\ \E data \in Bodies :
         /\ city' = GetCity(data)
         /\ IF GetCity(data) = ""
            THEN /\ response' = [status |-> 400,
                                 body |-> [error |-> "City name is required"]]
                 /\ pc' = "done"
            ELSE /\ response' = response
                 /\ pc' = "geocode"
    /\ UNCHANGED <<calls, geoResp, location, weatherResp, weather_data, elevResp,
                   topography_data, fuelResp, fuel_data, waterResp, water_sources>>

\* burn_agent.py lines 14-16
Geocode(Answers) ==
    /\ pc = "geocode"
    /\ \E g \in Answers :
         LET location_data == GeocodeCity(city, g) IN
         /\ geoResp' = g
         /\ calls' = [calls EXCEPT !.geocoder = @ + 1]
         /\ IF IsRaise(location_data)
            THEN /\ response' = ServerError(location_data)
                 /\ pc' = "done"
                 /\ location' = location
            ELSE /\ location' = location_data
                 /\ pc' = "weather"
                 /\ response' = response
    /\ UNCHANGED <<city, weatherResp, weather_data, elevResp, topography_data,
                   fuelResp, fuel_data, waterResp, water_sources>>

\* burn_agent.py line 19
WeatherStep(Replies) ==
    /\ pc = "weather"
    /\ \E r \in Replies :
         LET d == GetWeatherData(r) IN
         /\ weatherResp' = r
         /\ calls' = [calls EXCEPT !.weather = @ + WeatherCalls(r)]
         /\ IF IsRaise(d)
            THEN /\ response' = ServerError(d) /\ pc' = "done"
                 /\ weather_data' = weather_data
            ELSE /\ weather_data' = d /\ pc' = "topography"
                 /\ response' = response
    /\ UNCHANGED <<city, geoResp, location, elevResp, topography_data, fuelResp, fuel_data,
                   waterResp, water_sources>>

\* burn_agent.py line 20
TopographyStep(Replies) ==
    /\ pc = "topography"
    /\ \E r \in Replies : \E d \in GetTopographyData(r) :
         /\ elevResp' = r
         /\ calls' = [calls EXCEPT !.elevation = @ + TopographyCalls(r)]
         /\ IF IsRaise(d)
            THEN /\ response' = ServerError(d) /\ pc' = "done"
                 /\ topography_data' = topography_data
            ELSE /\ topography_data' = d /\ pc' = "fuel"
                 /\ response' = response
    /\ UNCHANGED <<city, geoResp, location, weatherResp, weather_data, fuelResp, fuel_data,
                   waterResp, water_sources>>

\* burn_agent.py line 21
FuelStep(Replies) ==
    /\ pc = "fuel"
    /\ \E r \in Replies :
         LET d == GetFuelSources(r) IN
         /\ fuelResp' = r
         /\ calls' = [calls EXCEPT !.overpass = @ + 1]
         /\ IF IsRaise(d)
            THEN /\ response' = ServerError(d) /\ pc' = "done"
                 /\ fuel_data' = fuel_data
            ELSE /\ fuel_data' = d /\ pc' = "water"
                 /\ response' = response
    /\ UNCHANGED <<city, geoResp, location, weatherResp, weather_data, elevResp,
                   topography_data, waterResp, water_sources>>

\* burn_agent.py line 22
WaterStep(Replies) ==
    /\ pc = "water"
    /\ \E r \in Replies :
         LET d == GetWaterSources(r) IN
         /\ waterResp' = r
         /\ calls' = [calls EXCEPT !.overpass = @ + 1]
         /\ IF IsRaise(d)
            THEN /\ response' = ServerError(d) /\ pc' = "done"
                 /\ water_sources' = water_sources
            ELSE /\ water_sources' = d /\ pc' = "compile"
                 /\ response' = response
    /\ UNCHANGED <<city, geoResp, location, weatherResp, weather_data, elevResp,
                   topography_data, fuelResp, fuel_data>>

\* burn_agent.py lines 25-32
Report(loc, weather, topography, fuel, water, assessment) ==
    [location |-> loc,
     weather |-> weather,
     topography |-> topography,
     fuel_sources |-> fuel,
     water_sources |-> water,
     burn_assessment |-> assessment]

\* burn_agent.py lines 25-32 and app.py lines 21-23
Compile ==
    /\ pc = "compile"
    /\ LET a == AssessBurnConditions(weather_data) IN
         response' = IF IsRaise(a) THEN ServerError(a)
                     ELSE [status |-> 200,
                           body |-> Report(location, weather_data, topography_data,
                                           fuel_data, water_sources, a)]
    /\ pc' = "done"
    /\ UNCHANGED <<city, calls, geoResp, location, weatherResp, weather_data, elevResp,
                   topography_data, fuelResp, fuel_data, waterResp, water_sources>>

\* analyze_location as a function of the place name and of the services' replies:
\* the results it may produce, each a report or a raised error
AnalyzeLocation(name, g, w, t, f, wa) ==
    LET location_data == GeocodeCity(name, g)
        weather == GetWeatherData(w)
        fuel == GetFuelSources(f)
        water == GetWaterSources(wa)
        assessment == AssessBurnConditions(weather)
    IN  IF IsRaise(location_data) THEN {location_data}
        ELSE IF IsRaise(weather) THEN {weather}
        ELSE {IF IsRaise(topography) THEN topography
              ELSE IF IsRaise(fuel) THEN fuel
              ELSE IF IsRaise(water) THEN water
              ELSE IF IsRaise(assessment) THEN assessment
              ELSE Report(location_data, weather, topography, fuel, water, assessment) :
                topography \in GetTopographyData(t)}

-----------------------------------------------------------------------------
(* The environment: request bodies and the replies of the upstream services *)

\* "Today"
NameToday == <<"T","o","d","a","y">>
\* "Tonight"
NameTonight == <<"T","o","n","i","g","h","t">>
\* "This Afternoon"
NameThisAfternoon == <<"T","h","i","s"," ","A","f","t","e","r","n","o","o","n">>
\* "Overnight"
NameOvernight == <<"O","v","e","r","n","i","g","h","t">>
\* "SATURDAY NIGHT"
NameSaturdayNight == <<"S","A","T","U","R","D","A","Y"," ","N","I","G","H","T">>

PeriodNames == {NameToday, NameTonight, NameThisAfternoon, NameOvernight, NameSaturdayNight}

\* "20 mph"
Wind20 == <<"2","0"," ","m","p","h">>
\* "5 mph"
Wind5 == <<"5"," ","m","p","h">>
\* "15 mph"
Wind15 == <<"1","5"," ","m","p","h">>
\* "16 mph"
Wind16 == <<"1","6"," ","m","p","h">>
\* "10 to 20 mph"
Wind10To20 == <<"1","0"," ","t","o"," ","2","0"," ","m","p","h">>
\* "20 to 30 mph"
Wind20To30 == <<"2","0"," ","t","o"," ","3","0"," ","m","p","h">>
\* " 16 mph"
WindLeadingSpace == <<" ","1","6"," ","m","p","h">>
\* "20mph"
WindNoSpace == <<"2","0","m","p","h">>
\* "G25 mph"
WindGust == <<"G","2","5"," ","m","p","h">>
\* ""
WindEmpty == <<>>
\* "  "
WindBlank == <<" "," ">>
\* "calm"
WindCalm == <<"c","a","l","m">>
\* "mph 20"
WindUnitFirst == <<"m","p","h"," ","2","0">>

ParseableWinds == {Wind20, Wind5, Wind15, Wind16, Wind10To20, Wind20To30, WindLeadingSpace, WindNoSpace, WindGust}
UnparseableWinds == {WindEmpty, WindBlank, WindCalm, WindUnitFirst}
WindStrings == ParseableWinds \cup UnparseableWinds

\* request.json: with a place name, with an empty one, without the key
RequestBodies == {[city |-> "Paris"], [city |-> ""],
                  [county |-> "Butte"]}

\* geolocator.geocode(city): a match, None, or a raised error
GeocoderAnswers ==
    {[found |-> TRUE, address |-> "Paris, France", latitude |-> 4886, longitude |-> 235],
     [found |-> FALSE],
     Raise("Service timed out")}

\* A forecast period as the forecast service sends it; rh is its relativeHumidity
\* field, PeriodNoRH a period that carries none
PeriodNoRH(name, temperature, wind) ==
    [name |-> name, temperature |-> temperature, temperatureUnit |-> "F",
     windSpeed |-> wind, windDirection |-> "NW", shortForecast |-> "Sunny",
     detailedForecast |-> "Sunny, with a high near 70."]

Period(name, temperature, wind, rh) ==
    [name |-> name, temperature |-> temperature, temperatureUnit |-> "F",
     windSpeed |-> wind, windDirection |-> "NW", shortForecast |-> "Sunny",
     detailedForecast |-> "Sunny, with a high near 70.",
     relativeHumidity |-> rh]

\* A period without its temperature
PeriodNoTemperature(name, wind) ==
    [name |-> name, temperatureUnit |-> "F",
     windSpeed |-> wind, windDirection |-> "NW", shortForecast |-> "Sunny",
     detailedForecast |-> "Sunny, with a high near 70."]

\* An hourly entry, with or without a relativeHumidity field
Hourly(rh) == [startTime |-> "T", relativeHumidity |-> rh]
HourlyNoRH == [startTime |-> "T"]

WeatherOk(periods, hourly) == [fail |-> 0, err |-> "", periods |-> periods, hourly |-> hourly]
WeatherFail(step, err) == [fail |-> step, err |-> err, periods |-> <<>>, hourly |-> <<>>]

WeatherFailures ==
    {WeatherFail(1, "503 Server Error"), WeatherFail(2, "Read timed out"),
     WeatherFail(3, "'properties'")}

ElevationOk(elevation, results) ==
    [fail |-> 0, err |-> "", elevation |-> elevation, results |-> results]
ElevationFail(step, err) == [fail |-> step, err |-> err, elevation |-> 0, results |-> <<>>]

ElevationFailures ==
    {ElevationFail(1, "504 Server Error"), ElevationFail(2, "Expecting value")}

OverpassOk(elements) == [fail |-> 0, err |-> "", elements |-> elements]
OverpassNoElements == [fail |-> 0, err |-> ""]
OverpassFail(err) == [fail |-> 1, err |-> err]

OverpassFailures == {OverpassFail("429 Too Many Requests")}

Way(tags) == [type |-> "way", id |-> 1, tags |-> tags]
Node(tags) == [type |-> "node", id |-> 2, tags |-> tags]
\* A node of a way's skeleton (out skel): no tags
SkeletonNode == [type |-> "node", id |-> 3]
UntaggedWay == [type |-> "way", id |-> 4]
\* An element without its type
Untyped == [id |-> 5, tags |-> [natural |-> "wood"]]

\* Sequences over S of length at most n
SeqsUpTo(S, n) == UNION {[1..k -> S] : k \in 0..n}

\* The most periods a forecast reply carries
MaxPeriods == 4
\* The most entries an hourly reply carries
HourlyLen == 12
\* The most elements a feature reply carries
MaxElements == 3
\* Lines 152-157: the neighbour points of one batched elevation request
NeighbourCount == 4

\* The marker of a period whose relativeHumidity key is missing
Absent == [t |-> "absent"]

PeriodWith(name, temperature, wind, rh) ==
    IF rh = Absent THEN PeriodNoRH(name, temperature, wind)
    ELSE Period(name, temperature, wind, rh)

\* What a period's own relativeHumidity field may hold
OwnHumidity ==
    {Absent, PyNone, PyNum(0), PyNum(25), PyEmptyDict, PyValueDict(PyNone),
     PyValueDict(PyNum(0)), PyValueDict(PyNum(40))}

\* What an hourly entry's relativeHumidity field may hold
HourlyHumidity == {PyNum(55), PyNum(0), PyValueDict(PyNum(0)), PyValueDict(PyNone)}

\* An hourly reply of n entries: entry a holds va, entry b holds vb, the others
\* carry no humidity
Feed(n, a, va, b, vb) ==
    [i \in 1..n |-> IF i = a THEN Hourly(va) ELSE IF i = b THEN Hourly(vb) ELSE HourlyNoRH]

HourlyFeeds ==
    {Feed(n, a, va, a, va) : n \in 0..HourlyLen, a \in 1..HourlyLen, va \in HourlyHumidity}
    \cup {Feed(HourlyLen, ab[1], va, ab[2], vb) :
            ab \in {x \in (1..HourlyLen) \X (1..HourlyLen) :
                      x[1] < x[2] /\ x[2] < x[1] + HourlyWindow},
            va \in HourlyHumidity, vb \in HourlyHumidity}

\* Replies that vary the periods' names and number
NameReplies ==
    {WeatherOk([i \in DOMAIN f |-> PeriodNoRH(f[i], 70, Wind5)], <<>>) :
        f \in SeqsUpTo(PeriodNames, MaxPeriods)}

DayNames == <<NameToday, NameTonight, NameThisAfternoon, NameOvernight, NameToday>>

\* Replies that vary one period's humidity field and the hourly feed
HumidityReplies ==
    {WeatherOk([i \in 1..KeepPeriods |->
                  PeriodWith(DayNames[i], 70, Wind5, IF i = j THEN rh ELSE Absent)],
               feed) :
        j \in 1..KeepPeriods, rh \in OwnHumidity, feed \in HourlyFeeds}

\* Replies that vary what the burn assessor reads of the first period
AssessReplies ==
    {WeatherOk(<<PeriodWith(NameToday, temperature, wind, rh)>>, <<>>) :
        temperature \in {70, 85, 86}, wind \in WindStrings,
        rh \in {Absent, PyNum(0), PyNum(29), PyNum(30), PyValueDict(PyNum(0))}}

WeatherReplies ==
    NameReplies \cup HumidityReplies \cup AssessReplies \cup WeatherFailures
    \cup {WeatherOk(<<PeriodNoTemperature(NameToday, Wind5)>>, <<>>)}

\* Elevations, in hundredths of a metre
ElevationSamples == {0, 990, 996, 1000, 4990, 5000, 9990, 10000}

ElevationReplies ==
    {ElevationOk(e, results) :
        e \in {-8600, 12345},
        results \in [1..NeighbourCount -> ElevationSamples] \cup {<<>>}}
    \cup ElevationFailures

FuelElements ==
    {Way([natural |-> "wood"]), Way([landuse |-> "grass"]),
     Way([natural |-> "scrub", landuse |-> "forest"]),
     Way([natural |-> "", landuse |-> "meadow"]),
     UntaggedWay, SkeletonNode, Node([natural |-> "wood"])}

FuelReplies ==
    {OverpassOk(elements) : elements \in SeqsUpTo(FuelElements, MaxElements)}
    \cup {OverpassOk(<<Way([natural |-> "wood"]), Untyped>>), OverpassNoElements}
    \cup OverpassFailures

WaterElements ==
    {Way([natural |-> "water"]), Way([waterway |-> "stream"]),
     Way([landuse |-> "reservoir"]),
     Way([natural |-> "water", waterway |-> "river"]),
     Node([emergency |-> "fire_hydrant"]),
     Node([emergency |-> "fire_hydrant", natural |-> "water"]),
     SkeletonNode}

WaterReplies ==
    {OverpassOk(elements) : elements \in SeqsUpTo(WaterElements, MaxElements)}
    \cup {OverpassNoElements}
    \cup OverpassFailures

\* One reply of each service, for the steps a specification does not vary
UsualWeather ==
    WeatherOk(<<Period(NameThisAfternoon, 90, Wind20, PyValueDict(PyNum(25))),
                PeriodNoRH(NameTonight, 60, Wind5)>>,
              <<Hourly(PyNum(30)), Hourly(PyNum(45))>>)
UsualElevation == ElevationOk(12345, <<12000, 12400, 11900, 12100>>)
UsualFuel == OverpassOk(<<Way([natural |-> "wood"]), Way([landuse |-> "grass"]),
                          Way([landuse |-> "grass"]), SkeletonNode>>)
UsualWater == OverpassOk(<<Way([natural |-> "water"]),
                           Node([emergency |-> "fire_hydrant"]), SkeletonNode>>)

\* The replies of the whole-request specification
SomeWeather ==
    {UsualWeather, WeatherOk(<<PeriodNoRH(NameTonight, 70, WindCalm)>>, <<>>),
     WeatherOk(<<>>, <<>>)} \cup WeatherFailures
SomeElevation == {UsualElevation, ElevationOk(0, <<>>)} \cup ElevationFailures
SomeFuel == {UsualFuel, OverpassOk(<<Untyped>>), OverpassNoElements} \cup OverpassFailures
SomeWater == {UsualWater, OverpassNoElements} \cup OverpassFailures

-----------------------------------------------------------------------------
(* Specifications *)

\* A whole request, every service answering or failing
Next ==
    \/ Receive(RequestBodies)
    \/ Geocode(GeocoderAnswers)
    \/ WeatherStep(SomeWeather)
    \/ TopographyStep(SomeElevation)
    \/ FuelStep(SomeFuel)
    \/ WaterStep(SomeWater)
    \/ Compile

Spec == Init /\ [][Next]_vars

\* A request whose forecast reply is varied
NextWeather ==
    \/ Receive(RequestBodies)
    \/ Geocode(GeocoderAnswers)
    \/ WeatherStep(WeatherReplies)
    \/ TopographyStep({UsualElevation})
    \/ FuelStep({UsualFuel})
    \/ WaterStep({UsualWater})
    \/ Compile

SpecWeather == Init /\ [][NextWeather]_vars

\* A request whose elevation reply is varied
NextTerrain ==
    \/ Receive(RequestBodies)
    \/ Geocode(GeocoderAnswers)
    \/ WeatherStep({UsualWeather})
    \/ TopographyStep(ElevationReplies)
    \/ FuelStep({UsualFuel})
    \/ WaterStep({UsualWater})
    \/ Compile

SpecTerrain == Init /\ [][NextTerrain]_vars

\* A request whose feature replies are varied, one lookup at a time: the two
\* lookups share no state
NextTally ==
    \/ Receive(RequestBodies)
    \/ Geocode(GeocoderAnswers)
    \/ WeatherStep({UsualWeather})
    \/ TopographyStep({UsualElevation})
    \/ FuelStep(FuelReplies \cup {UsualFuel})
    \/ WaterStep(IF fuelResp = UsualFuel THEN WaterReplies ELSE {UsualWater})
    \/ Compile

SpecTally == Init /\ [][NextTally]_vars

-----------------------------------------------------------------------------
(* Properties of the request as a whole *)

WeatherFailed(r) == IsRaise(WeatherBody(r))
ElevationFailed(r) == \E b \in TopographyBody(r) : IsRaise(b)
FuelFailed(r) == IsRaise(FuelBody(r))
WaterFailed(r) == IsRaise(WaterBody(r))

\* x is the error-variant of a section: nothing but an 'error' that begins with prefix
IsErrorVariant(x, prefix) == DOMAIN x = {"error"} /\ x.error[1] = prefix

SectionKeys == {"location", "weather", "topography", "fuel_sources",
                "water_sources", "burn_assessment"}

Answered == pc = "done"
GeocodingSucceeded == location # Unset

\* The replies that differ from the request's own only where the request's lookup
\* failed and the other reply does not
Counterfactuals ==
    {x \in SomeWeather \X SomeElevation \X SomeFuel \X SomeWater :
        /\ x[1] = weatherResp \/ (WeatherFailed(weatherResp) /\ ~WeatherFailed(x[1]))
        /\ x[2] = elevResp \/ (ElevationFailed(elevResp) /\ ~ElevationFailed(x[2]))
        /\ x[3] = fuelResp \/ (FuelFailed(fuelResp) /\ ~FuelFailed(x[3]))
        /\ x[4] = waterResp \/ (WaterFailed(waterResp) /\ ~WaterFailed(x[4]))}

\* The report has six sections, and a failed lookup's section is its error-variant
SixSections ==
    /\ response.status = 200
    /\ DOMAIN response.body = SectionKeys
    /\ response.body.location = location
    /\ WeatherFailed(weatherResp) <=>
         IsErrorVariant(response.body.weather, "Weather data unavailable: ")
    /\ ElevationFailed(elevResp) <=>
         IsErrorVariant(response.body.topography, "Topography data unavailable: ")
    /\ FuelFailed(fuelResp) <=>
         IsErrorVariant(response.body.fuel_sources, "Fuel source data unavailable: ")
    /\ WaterFailed(waterResp) <=>
         IsErrorVariant(response.body.water_sources, "Water source data unavailable: ")

\* The sections of the lookups whose reply x leaves as it was are those of a report
\* analyze_location produces on x; with assessed, so is the burn assessment
SameAsOn(x, assessed) ==
    \E rep \in AnalyzeLocation(city, geoResp, x[1], x[2], x[3], x[4]) :
        /\ ~IsRaise(rep)
        /\ rep.location = response.body.location
        /\ x[1] = weatherResp => rep.weather = response.body.weather
        /\ x[2] = elevResp => rep.topography = response.body.topography
        /\ x[3] = fuelResp => rep.fuel_sources = response.body.fuel_sources
        /\ x[4] = waterResp => rep.water_sources = response.body.water_sources
        /\ assessed => rep.burn_assessment = response.body.burn_assessment

\* C1, as stated: once geocoding has succeeded the report has all six sections
\* whatever lookups fail, a failed lookup yields only its own error-variant, and
\* every other section, the burn assessment included, is what it would have been
\* had the failed lookups succeeded.
C1_AsStated ==
    (Answered /\ GeocodingSucceeded) =>
        /\ SixSections
        /\ \A x \in Counterfactuals : SameAsOn(x, TRUE)

\* C1, amended: once geocoding has succeeded the report has all six sections
\* whatever lookups fail, a failed lookup yields only its own error-variant, and the
\* location and every other lookup's section are what they would have been had the
\* failed lookups succeeded; the burn assessment follows the weather section, and is
\* the degraded 'Unable to assess - weather data unavailable' when weather failed.
C1_SectionsIndependent ==
    (Answered /\ GeocodingSucceeded) =>
        /\ SixSections
        /\ \A x \in Counterfactuals : SameAsOn(x, x[1] = weatherResp)
        /\ WeatherFailed(weatherResp) =>
             response.body.burn_assessment =
               [assessment |-> <<"Unable to assess - weather data unavailable">>]

\* A report whose vegetation query failed while weather, terrain and water answered
C1_Witness ==
    /\ Answered /\ GeocodingSucceeded
    /\ response.status = 200
    /\ FuelFailed(fuelResp)
    /\ ~WeatherFailed(weatherResp) /\ ~ElevationFailed(elevResp) /\ ~WaterFailed(waterResp)
    /\ "source" \in DOMAIN response.body.water_sources

\* C2: a request whose place name is missing or empty is answered 400, and no
\* outbound call is made in it, neither before nor after the rejection.
C2_EmptyNameRejectedWithoutCalls ==
    (pc # "idle" /\ city = "") =>
        /\ Answered
        /\ response = [status |-> 400, body |-> [error |-> "City name is required"]]
        /\ calls = NoCalls
        /\ geoResp = Unset /\ weatherResp = Unset /\ elevResp = Unset
        /\ fuelResp = Unset /\ waterResp = Unset

\* A rejected request
C2_Witness == Answered /\ city = "" /\ response.status = 400

NoMatch == geoResp # Unset /\ ~IsRaise(geoResp) /\ ~geoResp.found

NoLookupStarted ==
    /\ calls.weather = 0 /\ calls.elevation = 0 /\ calls.overpass = 0
    /\ weatherResp = Unset /\ elevResp = Unset /\ fuelResp = Unset /\ waterResp = Unset
    /\ weather_data = Unset /\ topography_data = Unset
    /\ fuel_data = Unset /\ water_sources = Unset

\* C3: when the geocoder finds no match the request ends in a 500 carrying the
\* failure's message, with no report and no lookup or assessment started; and
\* in every request no lookup starts before geocoding has succeeded.
C3_NoMatchIsFatal ==
    /\ NoMatch =>
         /\ Answered
         /\ response = [status |-> 500,
                        body |-> [error |-> "Could not find location: " \o city]]
         /\ NoLookupStarted
    /\ ~GeocodingSucceeded => NoLookupStarted

\* A request the geocoder found no match for
C3_Witness == NoMatch /\ Answered /\ response.status = 500 /\ calls.geocoder = 1

-----------------------------------------------------------------------------
(* Properties of the weather normalizer *)

WeatherReported == weather_data # Unset /\ "forecast" \in DOMAIN weather_data

Min(a, b) == IF a < b THEN a ELSE b

IsPrefix(s, t) == Len(s) <= Len(t) /\ \A i \in DOMAIN s : s[i] = t[i]

DayFirst == <<"Today", "Tonight", "Tomorrow">>
NightFirst == <<"Tonight", "Tomorrow", "Tomorrow Night">>

\* The text holds 'night' in any mix of cases
NightUpper == <<"N","I","G","H","T">>
HasNight(text) ==
    \E i \in 0..(Len(text) - 5) :
        \A k \in 1..5 : text[i + k] = Night[k] \/ text[i + k] = NightUpper[k]

ReportedNames == [i \in DOMAIN weather_data.forecast |-> weather_data.forecast[i].name]

Occurrences(s, x) == Cardinality({i \in DOMAIN s : s[i] = x})

RetainedCount ==
    Len(weather_data.forecast) = Min(Len(weatherResp.periods), 3)

NoRepeatedLabel ==
    Occurrences(ReportedNames, "Today") <= 1 /\ Occurrences(ReportedNames, "Tonight") <= 1

ExactlyOneSequence ==
    /\ IsPrefix(ReportedNames, DayFirst) # IsPrefix(ReportedNames, NightFirst)
    /\ IsPrefix(ReportedNames, DayFirst) <=> ~HasNight(weatherResp.periods[1].name)

\* C4, as stated: of a forecast of n periods exactly min(n, 3) are retained, their
\* names are a prefix of exactly one of (Today, Tonight, Tomorrow) and (Tonight,
\* Tomorrow, Tomorrow Night), the first iff period 0's name holds no 'night', and no
\* label Today or Tonight occurs twice.
C4_AsStated ==
    WeatherReported => RetainedCount /\ ExactlyOneSequence /\ NoRepeatedLabel

\* C4, amended: of a forecast of n periods exactly min(n, 3) are retained and no
\* label Today or Tonight occurs twice; when n >= 1 their names are a prefix of
\* exactly one of the two sequences, the first iff period 0's name holds no 'night';
\* when n = 0 no name is reported (the empty prefix of both).
C4_NamesFollowOneSequence ==
    WeatherReported =>
        /\ RetainedCount
        /\ NoRepeatedLabel
        /\ IF weatherResp.periods # <<>> THEN ExactlyOneSequence
           ELSE ReportedNames = <<>>

\* A forecast of four periods that starts at night, cut to three
C4_Witness ==
    /\ WeatherReported
    /\ Len(weatherResp.periods) = 4
    /\ weatherResp.periods[1].name = NameSaturdayNight
    /\ ReportedNames = NightFirst

\* The value a humidity field carries: a number, or the number in a wrapper's 'value'
Carried(field) ==
    IF field.t = "num" THEN field
    ELSE IF field.t = "dict" /\ "value" \in DOMAIN field /\ field.value.t = "num"
         THEN field.value
         ELSE PyNone

OwnCarried(p) ==
    IF "relativeHumidity" \in DOMAIN p THEN Carried(p.relativeHumidity) ELSE PyNone

\* The hourly entries at indices 4*i .. 4*i+3 (0-based) that hold a humidity the
\* scan accepts: a non-zero number, or a number in a wrapper
WindowHits(i) ==
    {j \in (4 * i + 1)..(4 * i + 4) :
        /\ j <= Len(weatherResp.hourly)
        /\ "relativeHumidity" \in DOMAIN weatherResp.hourly[j]
        /\ Carried(weatherResp.hourly[j].relativeHumidity) # PyNone
        /\ weatherResp.hourly[j].relativeHumidity # PyNum(0)}

ExpectedHumidity(i) ==
    LET own == OwnCarried(weatherResp.periods[i + 1]) IN
    IF own # PyNone THEN own
    ELSE IF WindowHits(i) # {}
         THEN Carried(weatherResp.hourly[SetMin(WindowHits(i))].relativeHumidity)
         ELSE PyStr("N/A")

\* C5: every retained period i reports its own relative-humidity value (a flat number
\* or a wrapper's 'value') whenever it carries one, the value 0 included, whatever the
\* hourly feed holds; otherwise the first value found among the hourly entries
\* 4*i .. 4*i+3; otherwise exactly 'N/A'.
C5_HumidityResolution ==
    WeatherReported =>
        \A i \in 0..(Len(weather_data.forecast) - 1) :
            weather_data.forecast[i + 1].humidity = ExpectedHumidity(i)

-----------------------------------------------------------------------------
(* Properties of the burn assessor *)

Reported == Answered /\ GeocodingSucceeded /\ response.status = 200

\* The first whitespace-delimited token of a text lies at First..Last
HasToken(text) == \E j \in DOMAIN text : ~IsSpace(text[j])
TokenFirst(text) == SetMin({j \in DOMAIN text : ~IsSpace(text[j])})
TokenLast(text) ==
    SetMax({b \in TokenFirst(text)..Len(text) :
              \A j \in TokenFirst(text)..b : ~IsSpace(text[j])})
TokenDigits(text) ==
    {j \in TokenFirst(text)..TokenLast(text) : IsDigit(text[j])}

Parseable(text) == HasToken(text) /\ TokenDigits(text) # {}

RECURSIVE Pow10(_)
Pow10(n) == IF n = 0 THEN 1 ELSE 10 * Pow10(n - 1)

RECURSIVE SumOver(_, _, _)
SumOver(S, text, all) ==
    IF S = {} THEN 0
    ELSE LET j == SetMin(S) IN
         DigitValue(text[j]) * Pow10(Cardinality({k \in all : k > j}))
           + SumOver(S \ {j}, text, all)

\* The number the digits of the first token spell
LeadingNumber(text) == SumOver(TokenDigits(text), text, TokenDigits(text))

HighWind == "High wind speeds - increased fire spread risk"
LowHumidity == "Low humidity - increased fire intensity risk"
HighTemperature == "High temperature - increased fire behavior risk"
ConcernOrder == <<HighWind, LowHumidity, HighTemperature>>

FirstPeriod == response.body.weather.forecast[1]

Triggered(c) ==
    CASE c = HighWind -> LeadingNumber(FirstPeriod.wind_speed) > 15
      [] c = LowHumidity -> FirstPeriod.humidity.t = "num" /\ FirstPeriod.humidity.v < 30
      [] c = HighTemperature -> FirstPeriod.temperature > 85

Assessable ==
    /\ Reported
    /\ "forecast" \in DOMAIN response.body.weather
    /\ response.body.weather.forecast # <<>>
    /\ Parseable(FirstPeriod.wind_speed)

\* C6: for a weather report whose first period has a parseable wind text the assessor
\* returns the fixed recommendation and a non-empty list of concerns: those triggered
\* among wind > 15 (the number of the first token only), humidity a number < 30,
\* temperature > 85, in that order, or the single 'Conditions appear moderate'.
C6_ConcernsAreThoseTriggered ==
    Assessable =>
        LET a == response.body.burn_assessment
            due == SelectSeq(ConcernOrder, Triggered)
        IN  /\ DOMAIN a = {"concerns", "recommendation"}
            /\ a.recommendation =
                 "Consult with fire management professionals before proceeding"
            /\ a.concerns # <<>>
            /\ a.concerns = IF due = <<>> THEN <<"Conditions appear moderate">> ELSE due

\* A range whose first number is below the limit, hot, humidity unknown
C6_Witness ==
    /\ Assessable
    /\ FirstPeriod.wind_speed = Wind10To20
    /\ FirstPeriod.humidity = PyStr("N/A")
    /\ FirstPeriod.temperature = 86
    /\ response.body.burn_assessment.concerns = <<HighTemperature>>

\* C7: the assessor never propagates a failure.  On the weather error-variant it
\* returns exactly 'Unable to assess - weather data unavailable'; on a report whose
\* first period cannot be assessed (no digit in the first token of the wind text, an
\* empty wind text, no period) it returns 'Unable to assess conditions: <message>';
\* its result has 'assessment' or 'concerns' and 'recommendation', never both, and
\* the report is returned all the same.
C7_AssessorNeverPropagates ==
    (Answered /\ GeocodingSucceeded) =>
        /\ response.status = 200
        /\ LET a == response.body.burn_assessment
               weather == response.body.weather
           IN  /\ DOMAIN a = {"assessment"} \/ DOMAIN a = {"concerns", "recommendation"}
               /\ "error" \in DOMAIN weather =>
                    a = [assessment |-> <<"Unable to assess - weather data unavailable">>]
               /\ ("error" \notin DOMAIN weather /\ ~Assessable) =>
                    /\ DOMAIN a = {"assessment"}
                    /\ Len(a.assessment) = 2
                    /\ a.assessment[1] = "Unable to assess conditions: "

\* A report whose first period's wind text holds no digit
C7_Witness ==
    /\ Reported
    /\ "forecast" \in DOMAIN response.body.weather
    /\ response.body.weather.forecast # <<>>
    /\ FirstPeriod.wind_speed = WindCalm
    /\ response.body.burn_assessment.assessment[1] = "Unable to assess conditions: "

-----------------------------------------------------------------------------
(* Properties of the terrain sampler *)

TerrainReported == topography_data # Unset /\ "terrain_note" \in DOMAIN topography_data

\* The neighbours' elevation range, in hundredths of a metre
NeighbourRange ==
    CHOOSE d \in {elevResp.results[i] - elevResp.results[j] :
                    i \in DOMAIN elevResp.results, j \in DOMAIN elevResp.results} :
        \A i \in DOMAIN elevResp.results, j \in DOMAIN elevResp.results :
            elevResp.results[i] - elevResp.results[j] <= d

\* The class is note exactly when the range is in lo .. hi - 1 (hundredths of a metre)
StepAt(note, lo, hi) ==
    topography_data.terrain_note = note <=> (lo <= NeighbourRange /\ NeighbourRange < hi)

\* C8, as stated: the class is a step function of the unrounded range with exclusive
\* upper bounds at 10, 50 and 100, its labels "Flat", "Gently rolling",
\* "Moderately hilly" and "Steep/mountainous".
C8_AsStated ==
    TerrainReported =>
        /\ StepAt("Flat", 0, 1000)
        /\ StepAt("Gently rolling", 1000, 5000)
        /\ StepAt("Moderately hilly", 5000, 10000)
        /\ topography_data.terrain_note = "Steep/mountainous" <=> NeighbourRange >= 10000

\* C8, amended: the class is a step function of the unrounded range with exclusive
\* upper bounds at 10, 50 and 100, its labels "Flat terrain", "Gently rolling
\* terrain", "Moderately hilly terrain" and "Steep/mountainous terrain".
C8_TerrainStepFunction ==
    TerrainReported =>
        /\ StepAt("Flat terrain", 0, 1000)
        /\ StepAt("Gently rolling terrain", 1000, 5000)
        /\ StepAt("Moderately hilly terrain", 5000, 10000)
        /\ topography_data.terrain_note = "Steep/mountainous terrain"
             <=> NeighbourRange >= 10000

\* A range of 9.96 m: reported as 10.0, classed as flat
C8_Witness ==
    /\ TerrainReported
    /\ NeighbourRange = 996
    /\ topography_data.elevation_range_nearby = 100
    /\ topography_data.terrain_note = "Flat terrain"

-----------------------------------------------------------------------------
(* Properties of the vegetation and water aggregators *)

FuelReported == fuel_data # Unset /\ "fuel_types_found" \in DOMAIN fuel_data
WaterReported == water_sources # Unset /\ "water_bodies" \in DOMAIN water_sources

HasTag(element, k) ==
    "tags" \in DOMAIN element /\ k \in DOMAIN element.tags /\ element.tags[k] # ""

IsWay(element) == element.type = "way"

\* The tag a way is tallied under: 'natural' before 'landuse'; "" when it has neither
FuelTag(element) ==
    IF HasTag(element, "natural") THEN element.tags.natural
    ELSE IF HasTag(element, "landuse") THEN element.tags.landuse
    ELSE ""

FuelElementsSent == Elements(fuelResp)
TalliedWays == {i \in DOMAIN FuelElementsSent :
                  IsWay(FuelElementsSent[i]) /\ FuelTag(FuelElementsSent[i]) # ""}
FuelTags == {FuelTag(FuelElementsSent[i]) : i \in TalliedWays}
WaysTagged(k) == {i \in TalliedWays : FuelTag(FuelElementsSent[i]) = k}
FirstSeen(k) == SetMin(WaysTagged(k))

\* C9: dominant_fuel is a tag of maximal count; among tags tied for the maximum it is
\* the one first met in the element sequence; it is 'Unknown' when the tally is empty.
C9_DominantFuel ==
    FuelReported =>
        IF FuelTags = {} THEN fuel_data.dominant_fuel = "Unknown"
        ELSE /\ fuel_data.dominant_fuel \in FuelTags
             /\ \A k \in FuelTags :
                  \/ Cardinality(WaysTagged(k)) < Cardinality(WaysTagged(fuel_data.dominant_fuel))
                  \/ /\ Cardinality(WaysTagged(k)) = Cardinality(WaysTagged(fuel_data.dominant_fuel))
                     /\ FirstSeen(fuel_data.dominant_fuel) <= FirstSeen(k)

\* Two tags tie for the maximum and the first met, not the last, is reported
C9_Witness ==
    /\ FuelReported
    /\ FuelElementsSent # <<>>
    /\ FuelElementsSent[1] = Way([landuse |-> "grass"])
    /\ Cardinality(WaysTagged("grass")) = Cardinality(WaysTagged("wood"))
    /\ fuel_data.dominant_fuel = "grass"

RECURSIVE SumCounts(_)
SumCounts(d) == IF d = <<>> THEN 0 ELSE d[1].count + SumCounts(Tail(d))

Keys(d) == {d[i].key : i \in DOMAIN d}

WaterElementsSent == Elements(waterResp)
IsHydrant(element) ==
    "tags" \in DOMAIN element /\ "emergency" \in DOMAIN element.tags
    /\ element.tags.emergency = "fire_hydrant"

\* The tag a water feature is tallied under; "" when it has none
WaterTag(element) ==
    IF HasTag(element, "natural") THEN element.tags.natural
    ELSE IF HasTag(element, "waterway") THEN element.tags.waterway
    ELSE IF HasTag(element, "landuse") THEN element.tags.landuse
    ELSE ""

Hydrants == {i \in DOMAIN WaterElementsSent : IsHydrant(WaterElementsSent[i])}
WaterFeatures(k) ==
    {i \in DOMAIN WaterElementsSent :
        ~IsHydrant(WaterElementsSent[i]) /\ WaterTag(WaterElementsSent[i]) = k}
Untallied ==
    {i \in DOMAIN WaterElementsSent :
        ~IsHydrant(WaterElementsSent[i]) /\ WaterTag(WaterElementsSent[i]) = ""}

FuelTallyBounded ==
    /\ fuel_data.total_areas =
         Cardinality({i \in DOMAIN FuelElementsSent : IsWay(FuelElementsSent[i])})
    /\ SumCounts(fuel_data.fuel_types_found) <= fuel_data.total_areas
    /\ Keys(fuel_data.fuel_types_found) = FuelTags
    /\ \A k \in FuelTags :
         DictCount(fuel_data.fuel_types_found, k) = Cardinality(WaysTagged(k))

WaterTallyBounded ==
    /\ water_sources.total_water_sources = Len(WaterElementsSent)
    /\ water_sources.fire_hydrants = Cardinality(Hydrants)
    /\ \A i \in DOMAIN water_sources.water_bodies :
         water_sources.water_bodies[i].count =
           Cardinality(WaterFeatures(water_sources.water_bodies[i].key))
    /\ water_sources.fire_hydrants + SumCounts(water_sources.water_bodies)
         <= water_sources.total_water_sources
    /\ Untallied = {} =>
         water_sources.fire_hydrants + SumCounts(water_sources.water_bodies)
           = water_sources.total_water_sources

\* C10: total_areas is the number of ways and the fuel counts sum to no more, each way
\* counted under at most one tag, 'natural' before 'landuse'; every water element is
\* counted at most once, a hydrant only in fire_hydrants, and fire_hydrants plus the
\* water_bodies counts is at most total_water_sources, and equal to it when every
\* element is a tagged water feature or a hydrant.
C10_TalliesWithinTotals ==
    /\ FuelReported => FuelTallyBounded
    /\ WaterReported => WaterTallyBounded

\* A hydrant that is also tagged as water, beside an untagged node
C10_Witness ==
    /\ WaterReported
    /\ WaterElementsSent =
         <<Node([emergency |-> "fire_hydrant", natural |-> "water"]), SkeletonNode>>
    /\ water_sources.fire_hydrants = 1
    /\ water_sources.water_bodies = <<>>
    /\ water_sources.total_water_sources = 2

====
